---------------------------- MODULE Spec2Model ----------------------------
(***************************************************************************)
(* cassandra-trace-reporting (src/traces.go): the three report commands    *)
(* of main -- sessions, events, stats -- as state machines over one store  *)
(* cursor.  One action is one iteration of a command's scan loop, or the   *)
(* code that follows the loop up to the end of the command branch.         *)
(*                                                                         *)
(* Text that the program only compares or prints (query texts) is a TLA+   *)
(* string; text that the program takes apart (activity, host names, IP     *)
(* literals) is a sequence of one-character strings.                       *)
(***************************************************************************)
EXTENDS Integers, Sequences, FiniteSets

VARIABLES
    pc,          \* position in main: "start", "scan", "done", "fatal", "panic"
    conn,        \* the store connection (client): "none", "open", "closed"
    minDuration, \* *minDuration flag
    onlySource,  \* *onlySource flag
    dns,         \* the resolver net.LookupAddr consults: address -> outcome
    scanned,     \* the rows iter.Scan has returned so far, in order
    sessions,    \* sessions branch: the slice of retained Session values
    count,       \* sessions and stats branches: count
    lineNo,      \* events branch: lineNo
    queries,     \* stats branch: the map query text -> queryStats
    out,         \* the report lines written to the output, in order
    summary      \* the trailing summary line: <<>> until printed

vars == <<pc, conn, minDuration, onlySource, dns, scanned, sessions, count,
          lineNo, queries, out, summary>>

----------------------------------------------------------------------------
(* Bounds of the model *)

\* most rows the sessions table yields to one scan
MaxSessions == 3
\* most rows the events query yields to one scan
MaxEvents == 2
\* largest duration (microseconds) a session row carries
MaxDuration == 2

Durations == 0..MaxDuration
Thresholds == 0..(MaxDuration + 1)
QueryTexts == {"a", "b"}
ParamKeys == {"query"}

\* a parameters map: any map from a subset of the keys to texts
ParamMaps == UNION {[S -> QueryTexts] : S \in SUBSET ParamKeys}

\* a row of system_traces.sessions as the scans read it
SessionRows == [duration : Durations, parameters : ParamMaps]

----------------------------------------------------------------------------
(* Go helpers *)

\* m[k] on a Go map of strings: the zero value "" when k is absent
MapGet(m, k) == IF k \in DOMAIN m THEN m[k] ELSE ""

\* Go's integer division truncates toward zero
GoDiv(a, b) ==
    IF (a >= 0) = (b > 0)
    THEN (IF a >= 0 THEN a ELSE -a) \div (IF b > 0 THEN b ELSE -b)
    ELSE -((IF a >= 0 THEN a ELSE -a) \div (IF b > 0 THEN b ELSE -b))

Swap(s, i, j) == [s EXCEPT ![i] = s[j], ![j] = s[i]]

Range(s) == {s[i] : i \in 1..Len(s)}

----------------------------------------------------------------------------
(* Connection set-up, shared by the three branches *)

\* CreateSession returned a session; defer client.Close() is registered
CreateSessionOK ==
    /\ pc = "start"
    /\ pc' = "scan"
    /\ conn' = "open"
    /\ UNCHANGED <<minDuration, onlySource, dns, scanned, sessions, count,
                   lineNo, queries, out, summary>>

\* CreateSession returned an error: log.Fatal before anything was opened
CreateSessionFail ==
    /\ pc = "start"
    /\ pc' = "fatal"
    /\ UNCHANGED <<conn, minDuration, onlySource, dns, scanned, sessions,
                   count, lineNo, queries, out, summary>>

\* iter.Scan returned false on a store error and iter.Close reports it:
\* log.Fatal calls os.Exit, which runs no deferred call
IterCloseFatal ==
    /\ pc = "scan"
    /\ pc' = "fatal"
    /\ UNCHANGED <<conn, minDuration, onlySource, dns, scanned, sessions,
                   count, lineNo, queries, out, summary>>

----------------------------------------------------------------------------
(* sessions *)

\* the less function handed to sort.Slice: longer duration first
SessionLessAsc(a, b) == a.Duration < b.Duration
SessionLess(a, b) == a.Duration > b.Duration

\* sort.Slice on a short slice is an insertion sort: element j moves left
\* while it is less than its left neighbour
RECURSIVE SinkSession(_, _)
SinkSession(s, j) ==
    IF j > 1 /\ SessionLess(s[j], s[j - 1])
    THEN SinkSession(Swap(s, j, j - 1), j - 1)
    ELSE s

RECURSIVE SortSessionsFrom(_, _)
SortSessionsFrom(s, i) ==
    IF i > Len(s) THEN s ELSE SortSessionsFrom(SinkSession(s, i), i + 1)

SortSessions(s) == SortSessionsFrom(s, 2)

\* the retention test of the scan loop
Retain(duration, min) == duration >= min

\* one iteration of the scan loop: the row's id is its ordinal in the scan
SessionsScan ==
    /\ pc = "scan"
    /\ Len(scanned) < MaxSessions
    /\ \E row \in SessionRows :
          /\ scanned' = Append(scanned, row)
          /\ count' = count + 1
          /\ sessions' =
                IF Retain(row.duration, minDuration)
                THEN Append(sessions, [Id |-> Len(scanned) + 1,
                                       Duration |-> row.duration,
                                       Parameters |-> row.parameters])
                ELSE sessions
    /\ UNCHANGED <<pc, conn, minDuration, onlySource, dns, lineNo, queries,
                   out, summary>>

\* the line printed for one retained session
SessionLine(s) ==
    [id |-> s.Id, duration |-> s.Duration, query |-> MapGet(s.Parameters, "query")]

\* the scan is exhausted, iter.Close reports nothing: sort, print the lines
\* and the summary, leave main (the deferred client.Close runs)
SessionsReport ==
    /\ pc = "scan"
    /\ sessions' = SortSessions(sessions)
    /\ out' = [i \in 1..Len(sessions) |-> SessionLine(sessions'[i])]
    /\ summary' = <<Len(sessions'), count>>
    /\ pc' = "done"
    /\ conn' = "closed"
    /\ UNCHANGED <<minDuration, onlySource, dns, scanned, count, lineNo, queries>>

NoDns == <<>>

InitSessions ==
    /\ pc = "start"
    /\ conn = "none"
    /\ minDuration \in Thresholds
    /\ onlySource = <<>>
    /\ dns = NoDns
    /\ scanned = <<>>
    /\ sessions = <<>>
    /\ count = 0
    /\ lineNo = 1
    /\ queries = <<>>
    /\ out = <<>>
    /\ summary = <<>>

NextSessions ==
    \/ CreateSessionOK
    \/ CreateSessionFail
    \/ SessionsScan
    \/ SessionsReport
    \/ IterCloseFatal

SpecSessions == InitSessions /\ [][NextSessions]_vars

----------------------------------------------------------------------------
(* C1: when the sessions command completes, it has printed exactly the     *)
(* scanned rows whose duration >= the threshold, each once, in an order    *)
(* where duration never increases from one line to the next; the summary   *)
(* reports matched = number of printed lines and total = number of rows    *)
(* scanned, whatever the threshold.                                        *)
C1_SessionsOutput ==
    (pc = "done") =>
        /\ {out[i].id : i \in 1..Len(out)} =
              {r \in 1..Len(scanned) : scanned[r].duration >= minDuration}
        /\ \A i, j \in 1..Len(out) : i # j => out[i].id # out[j].id
        /\ \A i \in 1..Len(out) :
              /\ out[i].duration = scanned[out[i].id].duration
              /\ out[i].query = MapGet(scanned[out[i].id].parameters, "query")
        /\ \A i \in 1..(Len(out) - 1) : out[i].duration >= out[i + 1].duration
        /\ summary = <<Len(out), Len(scanned)>>

\* a completed run that printed two lines of different duration and
\* dropped a row below the threshold
C1_Witness ==
    /\ pc = "done"
    /\ Len(out) >= 2
    /\ out[1].duration > out[2].duration
    /\ Len(out) < Len(scanned)
    /\ summary = <<Len(out), Len(scanned)>>

----------------------------------------------------------------------------
(* stats *)

\* queryStats.update
UpdateNoMin(q, duration) ==
    [min |-> q.min,
     max |-> IF duration > q.max THEN duration ELSE q.max,
     cumulative |-> q.cumulative + duration,
     count |-> q.count + 1]
UpdateNoCount(q, duration) ==
    [min |-> IF duration < q.min THEN duration ELSE q.min,
     max |-> IF duration > q.max THEN duration ELSE q.max,
     cumulative |-> q.cumulative + duration,
     count |-> q.count]
update(q, duration) ==
    [min |-> IF duration < q.min THEN duration ELSE q.min,
     max |-> IF duration > q.max THEN duration ELSE q.max,
     cumulative |-> q.cumulative + duration,
     count |-> q.count + 1]

\* queryStats.avg
avg(q) == GoDiv(q.cumulative, q.count)

\* the body of the scan loop on the map: first occurrence of the key
\* initialises the entry, a later one goes through update
StatsStep(qs, row) ==
    LET k == MapGet(row.parameters, "query")
    IN  [x \in DOMAIN qs \cup {k} |->
            IF x # k THEN qs[x]
            ELSE IF k \notin DOMAIN qs
                 THEN [min |-> row.duration, max |-> row.duration,
                       cumulative |-> row.duration, count |-> 1]
                 ELSE update(qs[k], row.duration)]

\* one iteration of the scan loop
StatsScan ==
    /\ pc = "scan"
    /\ Len(scanned) < MaxSessions
    /\ \E row \in SessionRows :
          /\ scanned' = Append(scanned, row)
          /\ queries' = StatsStep(queries, row)
          /\ count' = count + 1
    /\ UNCHANGED <<pc, conn, minDuration, onlySource, dns, sessions, lineNo,
                   out, summary>>

\* the less function handed to sort.Slice: larger average first
KeyLessAsc(qs, a, b) == avg(qs[a]) < avg(qs[b])
KeyLess(qs, a, b) == avg(qs[a]) > avg(qs[b])

RECURSIVE SinkKey(_, _, _)
SinkKey(qs, s, j) ==
    IF j > 1 /\ KeyLess(qs, s[j], s[j - 1])
    THEN SinkKey(qs, Swap(s, j, j - 1), j - 1)
    ELSE s

RECURSIVE SortKeysFrom(_, _, _)
SortKeysFrom(qs, s, i) ==
    IF i > Len(s) THEN s ELSE SortKeysFrom(qs, SinkKey(qs, s, i), i + 1)

SortKeys(qs, s) == SortKeysFrom(qs, s, 2)

\* the orders in which `for k := range queries` may yield the keys
KeyOrders(S) == {s \in [1..Cardinality(S) -> S] : Range(s) = S}

\* the line printed for one key
StatsLine(qs, k) ==
    [count |-> qs[k].count, min |-> qs[k].min, max |-> qs[k].max,
     avg |-> avg(qs[k]), query |-> k]

\* the keys in the order the report prints them, given the map's iteration order
ReportKeysUnsorted(qs, order) == order
ReportKeys(qs, order) == SortKeys(qs, order)

\* the scan is exhausted, iter.Close reports nothing: materialise the keys
\* in map iteration order, sort, print the lines and the summary, leave main
StatsReport ==
    /\ pc = "scan"
    /\ \E order \in KeyOrders(DOMAIN queries) :
          out' = [i \in 1..Len(order) |->
                     StatsLine(queries, ReportKeys(queries, order)[i])]
    /\ summary' = <<Cardinality(DOMAIN queries), count>>
    /\ pc' = "done"
    /\ conn' = "closed"
    /\ UNCHANGED <<minDuration, onlySource, dns, scanned, sessions, count,
                   lineNo, queries>>

InitStats ==
    /\ pc = "start"
    /\ conn = "none"
    /\ minDuration = 0
    /\ onlySource = <<>>
    /\ dns = NoDns
    /\ scanned = <<>>
    /\ sessions = <<>>
    /\ count = 0
    /\ lineNo = 1
    /\ queries = <<>>
    /\ out = <<>>
    /\ summary = <<>>

NextStats ==
    \/ CreateSessionOK
    \/ CreateSessionFail
    \/ StatsScan
    \/ StatsReport
    \/ IterCloseFatal

SpecStats == InitStats /\ [][NextStats]_vars

\* the scanned rows that fall under key k, and what the rows say about them
RowsOf(k) == {r \in 1..Len(scanned) : MapGet(scanned[r].parameters, "query") = k}
KeysScanned == {MapGet(scanned[r].parameters, "query") : r \in 1..Len(scanned)}
DurationsOf(k) == {scanned[r].duration : r \in RowsOf(k)}

RECURSIVE SumUpTo(_, _)
SumUpTo(k, n) ==
    IF n = 0 THEN 0
    ELSE SumUpTo(k, n - 1) + (IF n \in RowsOf(k) THEN scanned[n].duration ELSE 0)

(* C2: when the stats scan has ended, the map holds one entry per query    *)
(* text among the rows, and the entry is a function of the multiset of     *)
(* rows alone: count = number of rows with that query, min = smallest and  *)
(* max = largest duration, cumulative = sum of the durations, and avg is   *)
(* cumulative / count truncated.                                           *)
C2_StatsOfMultiset ==
    (pc = "done") =>
        /\ DOMAIN queries = KeysScanned
        /\ \A k \in DOMAIN queries :
              /\ queries[k].count = Cardinality(RowsOf(k))
              /\ queries[k].min \in DurationsOf(k)
              /\ \A d \in DurationsOf(k) : queries[k].min <= d /\ d <= queries[k].max
              /\ queries[k].max \in DurationsOf(k)
              /\ queries[k].cumulative = SumUpTo(k, Len(scanned))
              /\ avg(queries[k]) * Cardinality(RowsOf(k)) <= SumUpTo(k, Len(scanned))
              /\ (avg(queries[k]) + 1) * Cardinality(RowsOf(k)) > SumUpTo(k, Len(scanned))

\* a completed scan where one query has three rows, min < max, and an
\* average that truncation rounded down
C2_Witness ==
    /\ pc = "done"
    /\ \E k \in DOMAIN queries :
          /\ queries[k].count = 3
          /\ queries[k].min < queries[k].max
          /\ avg(queries[k]) * queries[k].count < queries[k].cumulative

(* C3: when the stats command completes, it has printed one line per       *)
(* distinct query key, each key once and none missing, with the entry's    *)
(* figures, in an order where the average never increases from one line    *)
(* to the next; the summary reports the number of distinct keys and the    *)
(* number of rows scanned.                                                 *)
C3_StatsOutput ==
    (pc = "done") =>
        /\ {out[i].query : i \in 1..Len(out)} = KeysScanned
        /\ Len(out) = Cardinality(KeysScanned)
        /\ \A i \in 1..Len(out) : out[i] = StatsLine(queries, out[i].query)
        /\ \A i \in 1..(Len(out) - 1) : out[i].avg >= out[i + 1].avg
        /\ summary = <<Cardinality(KeysScanned), Len(scanned)>>

\* a completed run with three keys and strictly falling averages
C3_Witness ==
    /\ pc = "done"
    /\ Len(out) = 3
    /\ out[1].avg > out[2].avg
    /\ out[2].avg > out[3].avg
    /\ summary = <<3, Len(scanned)>>

(* C10: after every prefix of the stats scan, every entry of the map has   *)
(* count >= 1 and min <= avg <= max, the counts add up to the number of    *)
(* rows scanned, and the rows without a "query" parameter are all counted  *)
(* under the empty-string key.                                             *)
RECURSIVE SumCounts(_, _)
SumCounts(qs, S) ==
    IF S = {} THEN 0
    ELSE LET k == CHOOSE x \in S : TRUE
         IN  qs[k].count + SumCounts(qs, S \ {k})

NoQueryRows == {r \in 1..Len(scanned) : "query" \notin DOMAIN scanned[r].parameters}

C10_StatsInvariant ==
    /\ \A k \in DOMAIN queries :
          /\ queries[k].count >= 1
          /\ queries[k].min <= avg(queries[k])
          /\ avg(queries[k]) <= queries[k].max
    /\ SumCounts(queries, DOMAIN queries) = count
    /\ count = Len(scanned)
    /\ NoQueryRows # {} =>
          /\ "" \in DOMAIN queries
          /\ queries[""].count = Cardinality(NoQueryRows)

\* mid-scan: two rows without a query under "", another key beside them
C10_Witness ==
    /\ pc = "scan"
    /\ Cardinality(NoQueryRows) = 2
    /\ Cardinality(DOMAIN queries) = 2
    /\ queries[""].min < queries[""].max

\* the map a whole scan of the given rows builds
RECURSIVE Aggregate(_)
Aggregate(rows) ==
    IF rows = <<>> THEN <<>>
    ELSE StatsStep(Aggregate(SubSeq(rows, 1, Len(rows) - 1)), rows[Len(rows)])

\* every order in which the store may return the same rows
RowOrders(rows) ==
    {[i \in 1..Len(rows) |-> rows[p[i]]] : p \in KeyOrders(1..Len(rows))}

PrintedKeys == [i \in 1..Len(out) |-> out[i].query]
PrintedAvgs == [i \in 1..Len(out) |-> out[i].avg]
TiedKeys(qs) == \E a, b \in DOMAIN qs : a # b /\ avg(qs[a]) = avg(qs[b])

----------------------------------------------------------------------------
(* events: text helpers *)

Digits == {"0", "1", "2", "3", "4", "5", "6", "7", "8", "9"}

\* strings.TrimRight(s, cutset) and strings.TrimLeft(s, cutset)
RECURSIVE TrimRight(_, _)
TrimRight(s, cutset) ==
    IF Len(s) > 0 /\ s[Len(s)] \in cutset
    THEN TrimRight(SubSeq(s, 1, Len(s) - 1), cutset)
    ELSE s

RECURSIVE TrimLeft(_, _)
TrimLeft(s, cutset) ==
    IF Len(s) > 0 /\ s[1] \in cutset THEN TrimLeft(Tail(s), cutset) ELSE s

\* strings.Replace(s, old, new, n) for a non-empty old: the first n
\* non-overlapping occurrences, left to right; all of them when n < 0
RECURSIVE Replace(_, _, _, _)
Replace(s, old, new, n) ==
    IF n = 0 \/ Len(s) < Len(old) THEN s
    ELSE IF SubSeq(s, 1, Len(old)) = old
         THEN new \o Replace(SubSeq(s, Len(old) + 1, Len(s)), old, new, n - 1)
         ELSE <<s[1]>> \o Replace(Tail(s), old, new, n)

\* [\d]{1,3} at position i: the number of digits the greedy quantifier takes
DigitsAt(s, i) ==
    IF i > Len(s) \/ s[i] \notin Digits THEN 0
    ELSE IF i + 1 > Len(s) \/ s[i + 1] \notin Digits THEN 1
    ELSE IF i + 2 > Len(s) \/ s[i + 2] \notin Digits THEN 2
    ELSE 3

\* [\d]{1,3}\. at position i: the position after the dot, 0 when it does not
\* match (a shorter run of digits is followed by a digit, never by the dot)
OctetDot(s, i) ==
    LET k == DigitsAt(s, i)
    IN  IF i > 0 /\ k > 0 /\ i + k <= Len(s) /\ s[i + k] = "." THEN i + k + 1 ELSE 0

\* the pattern ` (?P<IP>/[\d]{1,3}\.[\d]{1,3}\.[\d]{1,3}\.[\d]{1,3})` anchored
\* at position i: the position of the last character matched, 0 for no match
MatchEnd(s, i) ==
    IF i + 1 > Len(s) \/ s[i] # " " \/ s[i + 1] # "/" THEN 0
    ELSE LET p == OctetDot(s, OctetDot(s, OctetDot(s, i + 2)))
         IN  IF p = 0 \/ DigitsAt(s, p) = 0 THEN 0 ELSE p + DigitsAt(s, p) - 1

\* r.FindStringSubmatch(input) for that pattern: <<whole match, group IP>> of
\* the leftmost match, the empty slice when there is none
FindStringSubmatch(input) ==
    LET starts == {i \in 1..Len(input) : MatchEnd(input, i) > 0}
    IN  IF starts = {} THEN <<>>
        ELSE LET i == CHOOSE x \in starts : \A y \in starts : x <= y
             IN  <<SubSeq(input, i, MatchEnd(input, i)),
                   SubSeq(input, i + 1, MatchEnd(input, i))>>

\* r.SubexpNames() of that pattern
SubexpNames == <<"", "IP">>

mapSubexpNames(m, n) ==
    IF Len(m) = 0 THEN <<>>
    ELSE [k \in {n[i] : i \in 2..Len(n)} |-> m[CHOOSE i \in 2..Len(n) : n[i] = k]]

matches(input) == mapSubexpNames(FindStringSubmatch(input), SubexpNames)

----------------------------------------------------------------------------
(* events: inputs *)

IP1 == <<"1", ".", "1", ".", "1", ".", "1">>
IP2 == <<"1", ".", "1", ".", "1", ".", "2">>
Addresses == {IP1, IP2}

HostA == <<"h", "a">>
HostB == <<"h", "b">>

\* what net.LookupAddr may return: an error or none, with zero, one or
\* several names, a name with or without its trailing dot
NameLists == {<<>>, <<HostA \o <<".">> >>, <<HostB, HostA \o <<".">> >>}
LookupOutcomes == [err : BOOLEAN, names : NameLists]

\* --only-source values: absent, a host name, an address
SourceFilters == {<<>>, HostA, IP1}

Sp == <<" ">>
Lit(ip) == <<"/">> \o ip

Activities ==
    { <<"x">>,                                              \* no address at all
      Lit(IP1) \o Sp \o <<"/", "1", ".", "1", ".", "1">>,   \* no leading space; three octets
      <<"x">> \o Sp \o Lit(IP1),                            \* one occurrence
      Sp \o Lit(IP1) \o Sp \o Lit(IP1) \o <<"2">> \o Sp \o Lit(IP1),
                                                            \* a longer token, a second occurrence
      Sp \o Lit(IP2) \o Sp \o Lit(IP1) }                    \* two different addresses

EventRows == [source : Addresses, activity : Activities]

----------------------------------------------------------------------------
(* events: one row *)

\* net.LookupAddr(addr)
LookupAddr(addr) == dns[addr]

\* srcName: the first name unless the lookup failed or named nothing, then
\* the address; trailing dots trimmed
SrcNameIgnoringErr(row) ==
    LET r == LookupAddr(row.source)
    IN  TrimRight(IF Len(r.names) < 1 THEN row.source ELSE r.names[1], {"."})
SrcName(row) ==
    LET r == LookupAddr(row.source)
    IN  TrimRight(IF r.err \/ Len(r.names) < 1 THEN row.source ELSE r.names[1], {"."})

\* strings.Replace(activity, m["IP"], names[0], -1) as the loop calls it
ReplaceFirstOnly(activity, old, new) == Replace(activity, old, new, 1)
ReplaceEmbedded(activity, old, new) == Replace(activity, old, new, -1)

\* is the result of the second lookup used: err == nil || len(names) > 1
Used(r) == ~r.err \/ Len(r.names) > 1

\* the embedded address of the row: whether the pattern matched, the literal
\* matched, what its lookup returned, whether names[0] is index out of range,
\* and the activity text afterwards
Embedded(row) ==
    LET m == matches(row.activity)
        found == Cardinality(DOMAIN m) > 0
        r == LookupAddr(TrimLeft(m["IP"], {"/"}))
    IN  IF ~found
        THEN [found |-> FALSE, panics |-> FALSE, activity |-> row.activity]
        ELSE IF ~Used(r)
        THEN [found |-> TRUE, literal |-> m["IP"], lookup |-> r, used |-> FALSE,
              panics |-> FALSE, activity |-> row.activity]
        ELSE IF Len(r.names) = 0
        THEN [found |-> TRUE, literal |-> m["IP"], lookup |-> r, used |-> TRUE,
              panics |-> TRUE, activity |-> row.activity]
        ELSE [found |-> TRUE, literal |-> m["IP"], lookup |-> r, used |-> TRUE,
              panics |-> FALSE,
              activity |-> ReplaceEmbedded(row.activity, m["IP"], r.names[1])]

\* the filter in front of the Printf
Shown(srcName) == Len(onlySource) < 1 \/ onlySource = srcName

\* one iteration of the scan loop.  An index out of range unwinds main: the
\* deferred client.Close runs and the process ends without printing the row
EventsScan ==
    /\ pc = "scan"
    /\ Len(scanned) < MaxEvents
    /\ \E row \in EventRows :
          /\ scanned' = Append(scanned, row)
          /\ IF Embedded(row).panics
             THEN /\ pc' = "panic"
                  /\ conn' = "closed"
                  /\ UNCHANGED <<out, lineNo>>
             ELSE /\ IF Shown(SrcName(row))
                     THEN /\ out' = Append(out, [lineNo |-> lineNo,
                                                 id |-> Len(scanned) + 1,
                                                 srcName |-> SrcName(row),
                                                 activity |-> Embedded(row).activity])
                          /\ lineNo' = lineNo + 1
                     ELSE UNCHANGED <<out, lineNo>>
                  /\ UNCHANGED <<pc, conn>>
    /\ UNCHANGED <<minDuration, onlySource, dns, sessions, count, queries, summary>>

\* the scan is exhausted, iter.Close reports nothing: leave main
EventsFinish ==
    /\ pc = "scan"
    /\ pc' = "done"
    /\ conn' = "closed"
    /\ UNCHANGED <<minDuration, onlySource, dns, scanned, sessions, count,
                   lineNo, queries, out, summary>>

InitEvents ==
    /\ pc = "start"
    /\ conn = "none"
    /\ minDuration = 0
    /\ onlySource \in SourceFilters
    /\ dns \in [Addresses -> LookupOutcomes]
    /\ scanned = <<>>
    /\ sessions = <<>>
    /\ count = 0
    /\ lineNo = 1
    /\ queries = <<>>
    /\ out = <<>>
    /\ summary = <<>>

NextEvents ==
    \/ CreateSessionOK
    \/ CreateSessionFail
    \/ EventsScan
    \/ EventsFinish
    \/ IterCloseFatal

SpecEvents == InitEvents /\ [][NextEvents]_vars

----------------------------------------------------------------------------
\* the scanned rows the filter lets through
ShownRows == {r \in 1..Len(scanned) : Shown(SrcName(scanned[r]))}

(* C5: the emitted lines are exactly the scanned rows whose resolved       *)
(* source name equals the filter (every row when the filter is empty), in  *)
(* row order, numbered 1, 2, ..., k without a gap.                         *)
C5_EmittedIffShown ==
    /\ {out[i].id : i \in 1..Len(out)} = ShownRows
    /\ Len(out) = Cardinality(ShownRows)
    /\ \A i \in 1..Len(out) : out[i].lineNo = i
    /\ \A i \in 1..(Len(out) - 1) : out[i].id < out[i + 1].id

\* t is s without its trailing dots
IsTrimOf(t, s) ==
    \E n \in 0..Len(s) :
        /\ t = SubSeq(s, 1, n)
        /\ n > 0 => s[n] # "."
        /\ \A i \in (n + 1)..Len(s) : s[i] = "."

(* C6: on every emitted line the source field is the row's address         *)
(* unchanged when the lookup of that address returned an error or no       *)
(* names, and otherwise the first name returned, without its trailing      *)
(* dots.                                                                   *)
C6_SourceField ==
    \A i \in 1..Len(out) :
        LET row == scanned[out[i].id]
            r == dns[row.source]
        IN  IF r.err \/ r.names = <<>>
            THEN out[i].srcName = row.source
            ELSE IsTrimOf(out[i].srcName, r.names[1])

\* one line from an address whose lookup failed although it named a host,
\* one line whose name lost its trailing dot
C6_Witness ==
    /\ \E i \in 1..Len(out) :
          /\ dns[scanned[out[i].id].source].err
          /\ dns[scanned[out[i].id].source].names # <<>>
          /\ out[i].srcName = scanned[out[i].id].source
    /\ \E i \in 1..Len(out) :
          /\ ~dns[scanned[out[i].id].source].err
          /\ out[i].srcName = HostA

\* the number of non-overlapping occurrences of old in s, left to right
RECURSIVE CountOcc(_, _)
CountOcc(s, old) ==
    IF Len(s) < Len(old) THEN 0
    ELSE IF SubSeq(s, 1, Len(old)) = old
         THEN 1 + CountOcc(SubSeq(s, Len(old) + 1, Len(s)), old)
         ELSE CountOcc(Tail(s), old)

(* C7 as stated: on every emitted line whose row's activity carries the    *)
(* pattern and whose lookup is treated as a response, only the first       *)
(* occurrence of the matched literal is replaced by the first name and     *)
(* every later occurrence is left as is; any other activity is untouched.  *)
C7_FirstOccurrenceOnly ==
    \A i \in 1..Len(out) :
        LET row == scanned[out[i].id]
            e == Embedded(row)
        IN  out[i].activity =
               IF e.found /\ e.used
               THEN Replace(row.activity, e.literal, e.lookup.names[1], 1)
               ELSE row.activity

(* C7 amended: on every emitted line whose row's activity carries the      *)
(* pattern and whose lookup is treated as a response, every occurrence of  *)
(* the matched literal is replaced by the first name, later occurrences    *)
(* and longer tokens that contain the literal included, and nothing else   *)
(* changes; an activity without the pattern, or whose lookup is not        *)
(* treated as a response, is emitted untouched.                            *)
C7_EveryOccurrence ==
    \A i \in 1..Len(out) :
        LET row == scanned[out[i].id]
            m == FindStringSubmatch(row.activity)
            r == dns[TrimLeft(m[2], {"/"})]
        IN  IF m = <<>> \/ (r.err /\ Len(r.names) <= 1)
            THEN out[i].activity = row.activity
            ELSE /\ CountOcc(out[i].activity, m[2]) = 0
                 /\ Len(out[i].activity) =
                       Len(row.activity)
                       + CountOcc(row.activity, m[2]) * (Len(r.names[1]) - Len(m[2]))
                 /\ Replace(out[i].activity, r.names[1], m[2], -1) = row.activity

\* an emitted line whose activity named the literal three times, once
\* inside a longer token, and lost all three
C7_Witness ==
    \E i \in 1..Len(out) :
        /\ CountOcc(scanned[out[i].id].activity, Lit(IP1)) = 3
        /\ CountOcc(out[i].activity, Lit(IP1)) = 0
        /\ CountOcc(out[i].activity, HostB) = 3

(* C8: no outcome of a reverse lookup ends the events command: the scan    *)
(* goes on to the next row whatever the resolver returned, and only a      *)
(* store error ends the command abnormally.                                *)
C8_LookupNeverFatal == pc # "panic"

(* C9: no command has ended while its store connection, once opened, was   *)
(* left unclosed.                                                          *)
C9_ClosedOnEveryExit == (pc \in {"done", "fatal", "panic"}) => (conn # "open")

============================================================================
